---- MODULE Spec2Model ----
(***************************************************************************)
(* Model of the gofile posting bot: bot.py (state store, URL normalizer,   *)
(* probe retry, selection and quota gate, commit) and goxplorer.py         *)
(* (liveness probe, listing strategies, collector filter).                 *)
(*                                                                         *)
(* Strings are sequences of tokens.  A token is an atomic piece of text:   *)
(* " " is one whitespace character, "/" one slash, "http:" / "HTTP:" /     *)
(* "https:" a scheme with its colon, anything else a run of other          *)
(* characters.  Time is counted in hours; a JST calendar date is the       *)
(* number of the day that contains (utc hour + 9).                         *)
(***************************************************************************)
EXTENDS Integers, Sequences, FiniteSets, TLC

VARIABLES now, file, run, published, norm, alive, retry, fetch, coll

vars == <<now, file, run, published, norm, alive, retry, fetch, coll>>

----------------------------------------------------------------------------
(* Bounds of the model *)

\* last hour of the wall clock
MaxNow == 25
\* longest raw listing the index site returns in one run
MaxRaw == 4
\* longest token string fed to normalize_url
MaxLen == 4
\* the probe reads the first 4096 bytes of the body; the model scales the
\* read to this many characters
ChunkLen == 3

\* collect_fresh_gofile_urls checks the first 60 unseen raw results; the
\* model scales the 60 to this many
QuickCheckLimit == 5

\* a kill inside save_state is followed while the timeline holds at most
\* this many posts
MaxKilledPosts == 1

(* Program constants *)

DAILY_LIMIT == 3
\* target = 3 in main, and the 3 of compose_fixed3_text and preflight[:3]
target == 3
\* add_if_alive calls is_alive_retry(n, retries=1, delay_sec=0.5)
Retries == 1
WantCandidates == 12
DefaultLineSeq == 800
JstOffsetHours == 9
WindowHours == 24

Procs == {1, 2}

\* None of Python, where a string is expected
None == <<"<None>">>
\* last_post_date None
NoDate == 0 - 1

----------------------------------------------------------------------------
(* bot.py: normalize_url *)

Whitespace == {" "}
HttpSchemes == {"http:", "HTTP:"}

RECURSIVE lstrip(_, _)
lstrip(u, chars) ==
    IF u # <<>> /\ Head(u) \in chars THEN lstrip(Tail(u), chars) ELSE u

RECURSIVE rstrip(_, _)
rstrip(u, chars) ==
    IF u # <<>> /\ u[Len(u)] \in chars
    THEN rstrip(SubSeq(u, 1, Len(u) - 1), chars)
    ELSE u

\* str.strip()
strip(u) == rstrip(lstrip(u, Whitespace), Whitespace)

\* mutant of sub_http: the pattern is matched case-sensitively
sub_http_case_sensitive(u) ==
    IF Len(u) >= 3 /\ u[1] = "http:" /\ u[2] = "/" /\ u[3] = "/"
    THEN <<"https:">> \o Tail(u)
    ELSE u

\* re.sub(r"^http://", "https://", u, flags=re.I)
sub_http(u) ==
    IF Len(u) >= 3 /\ u[1] \in HttpSchemes /\ u[2] = "/" /\ u[3] = "/"
    THEN <<"https:">> \o Tail(u)
    ELSE u

normalize_url(u) ==
    IF u = None \/ u = <<>>
    THEN u
    ELSE rstrip(sub_http(strip(u)), {"/"})

----------------------------------------------------------------------------
(* goxplorer.py: is_gofile_alive.  A probe response is the HEAD status     *)
(* (HeadError when the HEAD request raised) and the GET outcome: ok=FALSE  *)
(* when the GET raised, else the body as a sequence of characters.  The    *)
(* four death phrases are scaled to two characters each, the first one     *)
(* capitalised as in the source.                                           *)

HeadError == 0
FatalHead == {404, 410, 451}

_DEATH_MARKERS == << <<"T", "a">>, <<"T", "b">>, <<"h", "a">>, <<"h", "b">> >>

\* str.lower() on one character
lower_char(c) ==
    CASE c = "T" -> "t"
      [] c = "H" -> "h"
      [] c = "A" -> "a"
      [] c = "B" -> "b"
      [] OTHER -> c

lower(s) == [i \in 1..Len(s) |-> lower_char(s[i])]

\* needle in hay
contains(hay, needle) ==
    \E i \in 1..Len(hay) :
        /\ i + Len(needle) - 1 <= Len(hay)
        /\ SubSeq(hay, i, i + Len(needle) - 1) = needle

\* r.raw.read(4096, decode_content=True)
read_chunk(body) ==
    IF Len(body) <= ChunkLen THEN body ELSE SubSeq(body, 1, ChunkLen)

\* mutant of is_gofile_alive: the body is searched without lower()
is_gofile_alive_case_sensitive(resp) ==
    IF resp.head \in FatalHead
    THEN FALSE
    ELSE IF ~resp.get_ok
    THEN TRUE
    ELSE LET tl == read_chunk(resp.body)
         IN ~(\E k \in 1..Len(_DEATH_MARKERS) : contains(tl, lower(_DEATH_MARKERS[k])))

is_gofile_alive(resp) ==
    IF resp.head \in FatalHead
    THEN FALSE
    ELSE IF ~resp.get_ok
    THEN TRUE
    ELSE LET tl == lower(read_chunk(resp.body))
         IN ~(\E k \in 1..Len(_DEATH_MARKERS) : contains(tl, lower(_DEATH_MARKERS[k])))

\* bot.py: is_alive_retry(url, retries, delay_sec).  resps is what the
\* network answers to the successive probes of the url; the loop runs
\* retries + 1 times, probing once per turn, and sleeps after a dead verdict.
\* probe_loop yields the verdict and the number of probes issued.
RECURSIVE probe_loop(_, _, _)
probe_loop(resps, turns, probes) ==
    IF turns = 0
    THEN [ret |-> FALSE, probes |-> probes]
    ELSE IF is_gofile_alive(Head(resps))
    THEN [ret |-> TRUE, probes |-> probes + 1]
    ELSE probe_loop(Tail(resps), turns - 1, probes + 1)

is_alive_retry_default_alive(resps, retries) ==
    [ret |-> TRUE, probes |-> probe_loop(resps, retries + 1, 0).probes]

is_alive_retry(resps, retries) == probe_loop(resps, retries + 1, 0)

----------------------------------------------------------------------------
(* bot.py: the persisted state store.  The content of state.json is        *)
(*   kind "missing"      no file                                           *)
(*   kind "garbage"      text json.load rejects (empty or cut-off file)    *)
(*   kind "json_list", "json_scalar"  valid JSON that is not an object     *)
(*   kind "object"       a JSON object holding the keys in .keys with the  *)
(*                       values .data gives them                           *)
(* A timestamp string is [kind, t]: "aware" an ISO string with an offset,  *)
(* "naive" an ISO string without one, "bad" anything fromisoformat         *)
(* rejects, "missing" no "ts" key (item.get gives None).                   *)

Keys == {"posted_urls", "last_post_date", "posts_today", "recent_urls_24h", "line_seq"}

_default_state ==
    [posted_urls |-> <<>>,
     last_post_date |-> NoDate,
     posts_today |-> 0,
     recent_urls_24h |-> <<>>,
     line_seq |-> DefaultLineSeq]

MissingFile == [kind |-> "missing", keys |-> {}, data |-> _default_state]

\* what json.dump(state) leaves in the file once it has finished
json_dump(state) == [kind |-> "object", keys |-> Keys, data |-> state]

\* the file after open(STATE_FILE, "w") and before json.dump has finished
TruncatedFile == [kind |-> "garbage", keys |-> {}, data |-> _default_state]

\* load_state: [raised, state]
load_state(f) ==
    IF f.kind = "missing"
    THEN [raised |-> FALSE, state |-> _default_state]
    ELSE IF f.kind = "garbage"
    THEN [raised |-> FALSE, state |-> _default_state]
    ELSE IF f.kind # "object"
    THEN [raised |-> TRUE, state |-> _default_state]
    ELSE [raised |-> FALSE,
          state |-> [k \in Keys |-> IF k \in f.keys THEN f.data[k] ELSE _default_state[k]]]

\* now_utc.isoformat()
isoformat(t) == [kind |-> "aware", t |-> t]

\* now_utc.astimezone(JST).date()
jst_date(t) == (t + JstOffsetHours) \div 24

\* mutant of reset_if_new_day: the rollover starts the history afresh
reset_if_new_day_clears_history(state, now_utc) ==
    IF state.last_post_date # jst_date(now_utc)
    THEN [state EXCEPT !.last_post_date = jst_date(now_utc), !.posts_today = 0,
                       !.posted_urls = <<>>]
    ELSE state

\* reset_if_new_day
reset_if_new_day(state, now_utc) ==
    IF state.last_post_date # jst_date(now_utc)
    THEN [state EXCEPT !.last_post_date = jst_date(now_utc), !.posts_today = 0]
    ELSE state

\* mutant of can_post_more_today: the comparison is off by one
can_post_more_today_le(state) == state.posts_today <= DAILY_LIMIT

can_post_more_today(state) == state.posts_today < DAILY_LIMIT

\* the loop of purge_recent_24h over items, buf the entries kept so far:
\* [raised, buf]
RECURSIVE purge_loop(_, _, _)
purge_loop(items, cutoff, buf) ==
    IF items = <<>>
    THEN [raised |-> FALSE, buf |-> buf]
    ELSE LET item == Head(items)
         IN  IF item.ts.kind \in {"missing", "bad"}
             THEN purge_loop(Tail(items), cutoff, buf)
             ELSE IF item.ts.kind = "naive"
             THEN [raised |-> TRUE, buf |-> buf]
             ELSE IF item.ts.t >= cutoff
             THEN purge_loop(Tail(items), cutoff, Append(buf, item))
             ELSE purge_loop(Tail(items), cutoff, buf)

\* mutant of purge_recent_24h: an entry exactly 24 hours old is dropped
purge_recent_24h_exclusive(state, now_utc) ==
    LET r == purge_loop(state.recent_urls_24h, now_utc - WindowHours + 1, <<>>)
    IN  [raised |-> r.raised,
         state |-> IF r.raised THEN state ELSE [state EXCEPT !.recent_urls_24h = r.buf]]

\* purge_recent_24h: [raised, state]
purge_recent_24h(state, now_utc) ==
    LET r == purge_loop(state.recent_urls_24h, now_utc - WindowHours, <<>>)
    IN  [raised |-> r.raised,
         state |-> IF r.raised THEN state ELSE [state EXCEPT !.recent_urls_24h = r.buf]]

SeqRange(s) == {s[i] : i \in 1..Len(s)}

build_seen_set_from_state(state) ==
    {normalize_url(u) : u \in SeqRange(state.posted_urls)}
        \cup {normalize_url(item.url) : item \in SeqRange(state.recent_urls_24h)}

----------------------------------------------------------------------------
(* goxplorer.py: what the index site lists.  Every raw link the collector  *)
(* returns is a match of GOFILE_RE, https?://gofile.io/d/<id>, and one     *)
(* strategy never returns the same string twice.                           *)

gofile(scheme, id) == <<scheme, "/", "/", "gofile.io", "/", "d", "/", id>>

\* the links of the index site in the order it lists them, three pages
\* of four
Feed ==
    << gofile("http:", "A"), gofile("https:", "A"), gofile("https:", "B"), gofile("https:", "C"),
       gofile("http:", "C"), gofile("https:", "D"), gofile("https:", "E"), gofile("https:", "F"),
       gofile("HTTP:", "F"), gofile("https:", "G"), gofile("https:", "H"), gofile("https:", "I") >>

PageStarts == {1, 5, 9}

\* what fetch_listing_pages can return in one run: nothing, or at most
\* MaxRaw consecutive links from the start of a page
Windows ==
    {w \in PageStarts \X (1..Len(Feed)) : w[1] <= w[2] /\ w[2] - w[1] < MaxRaw}

Listings == {<<>>} \cup {SubSeq(Feed, w[1], w[2]) : w \in Windows}

\* the probe responses a run of the bot meets
TimeoutResp == [head |-> HeadError, get_ok |-> FALSE, body |-> <<>>]
NotFoundResp == [head |-> 404, get_ok |-> FALSE, body |-> <<>>]
MainResponses == {TimeoutResp, NotFoundResp}

\* s[:n]
Take(s, n) == IF Len(s) <= n THEN s ELSE SubSeq(s, 1, n)

\* [u for u in raw if u not in already_seen]
RECURSIVE not_seen(_, _)
not_seen(raw, already_seen) ==
    IF raw = <<>>
    THEN <<>>
    ELSE IF Head(raw) \in already_seen
    THEN not_seen(Tail(raw), already_seen)
    ELSE <<Head(raw)>> \o not_seen(Tail(raw), already_seen)

\* the filtering loop of collect_fresh_gofile_urls from candidate k on;
\* resp[u] is the probe response of u, and the deadline has passed once
\* more than cut candidates were handled.  The loop yields uniq and, in
\* probed, the urls it called is_gofile_alive on
RECURSIVE filter_loop(_, _, _, _, _, _, _, _)
filter_loop(candidates, k, uniq, seen_now, want, resp, cut, probed) ==
    IF k > Len(candidates)
    THEN [uniq |-> uniq, probed |-> probed]
    ELSE IF k > cut
    THEN [uniq |-> uniq, probed |-> probed]
    ELSE IF candidates[k] \in seen_now
    THEN filter_loop(candidates, k + 1, uniq, seen_now, want, resp, cut, probed)
    ELSE IF is_gofile_alive(resp[candidates[k]])
    THEN IF Len(uniq) + 1 >= want
         THEN [uniq |-> Append(uniq, candidates[k]), probed |-> Append(probed, candidates[k])]
         ELSE filter_loop(candidates, k + 1, Append(uniq, candidates[k]),
                          seen_now \cup {candidates[k]}, want, resp, cut,
                          Append(probed, candidates[k]))
    ELSE filter_loop(candidates, k + 1, uniq, seen_now, want, resp, cut,
                     Append(probed, candidates[k]))

\* mutant of collect_fresh_gofile_urls: every unseen raw result is checked
collect_fresh_gofile_urls_no_limit(raw, already_seen, want, resp, cut) ==
    filter_loop(not_seen(raw, already_seen), 1, <<>>, {}, want, resp, cut, <<>>)

\* collect_fresh_gofile_urls, raw the result of fetch_listing_pages
collect_fresh_gofile_urls(raw, already_seen, want, resp, cut) ==
    filter_loop(Take(not_seen(raw, already_seen), QuickCheckLimit), 1, <<>>, {},
                want, resp, cut, <<>>)

----------------------------------------------------------------------------
(* bot.py: main.  run[p] is one invocation of the bot:                     *)
(*   pc          "idle" not started, "collect", "select", "publish",       *)
(*               "save" about to call save_state, "done" returned or raised*)
(*   exit        how the run ended (or will end after save_state)          *)
(*   loaded      the content of state.json when load_state read it         *)
(*   state, already_seen, candidates, tested, preflight, start_seq,        *)
(*   status_text, now_utc  the locals of main                              *)
(*   i           the index of the next candidate of the selection loop     *)
(*   expired     the watchdog has seen more than HARD_LIMIT_SEC elapse     *)
(*   pub0        the number of posts on the timeline when the run started  *)
(* published is the timeline: one entry per post the publisher accepted.   *)

IdleRun ==
    [pc |-> "idle", exit |-> "none", now_utc |-> 0, loaded |-> MissingFile,
     state |-> _default_state, already_seen |-> {}, candidates |-> <<>>,
     i |-> 1, tested |-> {}, preflight |-> <<>>, expired |-> FALSE,
     start_seq |-> 0, status_text |-> <<>>, pub0 |-> 0]

\* mutant of Ended: every exit of main goes through save_state
Ended_saves(r, exit) ==
    [IdleRun EXCEPT !.pc = "save", !.exit = exit, !.now_utc = r.now_utc,
                    !.loaded = r.loaded, !.state = r.state, !.pub0 = r.pub0,
                    !.expired = r.expired]

\* the record of a run that ended: the locals the run no longer uses are
\* dropped
Ended(r, exit) ==
    [IdleRun EXCEPT !.pc = "done", !.exit = exit, !.now_utc = r.now_utc,
                    !.loaded = r.loaded, !.state = r.state, !.pub0 = r.pub0,
                    !.expired = r.expired]

\* the record of a run about to call save_state and return
Saving(r, exit) == [Ended(r, exit) EXCEPT !.pc = "save"]

NoRunInProgress == \A q \in Procs : run[q].pc \in {"idle", "done"}

\* mutant of compose_fixed3_text: the post is cut after two lines
compose_fixed3_text_two(gofile_urls, start_seq) ==
    LET sel == Take(gofile_urls, 2)
    IN  [k \in 1..Len(sel) |-> [seq |-> start_seq + k - 1, url |-> sel[k]]]

\* compose_fixed3_text: the numbered lines of the post
compose_fixed3_text(gofile_urls, start_seq) ==
    LET sel == Take(gofile_urls, 3)
    IN  [k \in 1..Len(sel) |-> [seq |-> start_seq + k - 1, url |-> sel[k]]]

\* the commit loop of main over preflight[:3]
RECURSIVE commit_urls(_, _, _)
commit_urls(state, urls, ts) ==
    IF urls = <<>>
    THEN state
    ELSE LET u == Head(urls)
             posted == IF u \in SeqRange(state.posted_urls)
                       THEN state.posted_urls
                       ELSE Append(state.posted_urls, u)
         IN  commit_urls([state EXCEPT !.posted_urls = posted,
                                       !.recent_urls_24h = Append(@, [url |-> u, ts |-> ts])],
                         Tail(urls), ts)

\* mutant of commit: line_seq advances by one per post instead of three
commit_seq_by_one(state, preflight, start_seq, now_utc) ==
    [commit_urls(state, Take(preflight, 3), isoformat(now_utc))
        EXCEPT !.posts_today = @ + 1, !.line_seq = start_seq + 1]

commit(state, preflight, start_seq, now_utc) ==
    [commit_urls(state, Take(preflight, 3), isoformat(now_utc))
        EXCEPT !.posts_today = @ + 1, !.line_seq = start_seq + 3]

\* main, lines 164-185: load, purge, rollover, quota gate, seen set, watchdog
StartRun(p) ==
    /\ run[p].pc \in {"idle", "done"}
    /\ LET ld == load_state(file)
           pg == purge_recent_24h(ld.state, now)
           st == reset_if_new_day(pg.state, now)
           r0 == [IdleRun EXCEPT !.now_utc = now, !.loaded = file,
                                 !.pub0 = Len(published)]
       IN  \E late \in BOOLEAN :
             run' = [run EXCEPT ![p] =
               IF ld.raised
               THEN Ended(r0, "load_raised")
               ELSE IF pg.raised
               THEN Ended([r0 EXCEPT !.state = ld.state], "purge_raised")
               ELSE IF ~can_post_more_today(st)
               THEN Ended([r0 EXCEPT !.state = st], "quota")
               ELSE IF late
               THEN Ended([r0 EXCEPT !.state = st], "budget")
               ELSE [r0 EXCEPT !.pc = "collect", !.state = st,
                               !.already_seen = build_seen_set_from_state(st)]]
    /\ UNCHANGED <<now, file, published, norm, alive, retry, fetch, coll>>

\* main, lines 187-202: collect; fewer than 3 candidates end the run
Collect(p) ==
    /\ run[p].pc = "collect"
    /\ \E raw \in Listings :
       \E resp \in [SeqRange(raw) -> MainResponses], cut \in 0..Len(raw) :
          LET cands == collect_fresh_gofile_urls(raw, run[p].already_seen,
                                                 WantCandidates, resp, cut).uniq
          IN  run' = [run EXCEPT ![p] =
                IF Len(cands) < 3
                THEN Saving(run[p], "few_candidates")
                ELSE [run[p] EXCEPT !.pc = "select", !.candidates = cands]]
    /\ UNCHANGED <<now, file, published, norm, alive, retry, fetch, coll>>

\* goxplorer.py line 197: the sitemap strategy calls the undefined name f
\* when the deadline passes between two post pages; the NameError leaves
\* collect_fresh_gofile_urls and main
CollectRaises(p) ==
    /\ run[p].pc = "collect"
    /\ run' = [run EXCEPT ![p] = Ended(run[p], "collect_raised")]
    /\ UNCHANGED <<now, file, published, norm, alive, retry, fetch, coll>>

\* mutant of budget_exceeded: the elapsed time is measured from the previous
\* candidate, not from the start of the run
budget_exceeded_since_last(r, over) == over

\* add_if_alive, line 205: time.monotonic() - start_ts > HARD_LIMIT_SEC.
\* over says that the clock is past the limit at this call; the clock is
\* monotonic, so the limit stays exceeded once it was
budget_exceeded(r, over) == r.expired \/ over

\* mutant of add_if_alive: the check against already_seen is left to the
\* collector
add_if_alive_no_seen(r, u, over, resps) ==
    LET n == normalize_url(u)
    IN  IF budget_exceeded(r, over)
        THEN [r EXCEPT !.expired = TRUE]
        ELSE IF n \in r.tested \/ n \in SeqRange(r.preflight)
        THEN r
        ELSE IF is_alive_retry(resps, Retries).ret
        THEN [r EXCEPT !.tested = @ \cup {n}, !.preflight = Append(@, n)]
        ELSE [r EXCEPT !.tested = @ \cup {n}]

\* add_if_alive(u) on the locals r of main: over says that the watchdog
\* finds more than HARD_LIMIT_SEC elapsed, resps are the responses the
\* probes of is_alive_retry get
add_if_alive(r, u, over, resps) ==
    LET n == normalize_url(u)
    IN  IF budget_exceeded(r, over)
        THEN [r EXCEPT !.expired = TRUE]
        ELSE IF n \in r.tested \/ n \in r.already_seen \/ n \in SeqRange(r.preflight)
        THEN r
        ELSE IF is_alive_retry(resps, Retries).ret
        THEN [r EXCEPT !.tested = @ \cup {n}, !.preflight = Append(@, n)]
        ELSE [r EXCEPT !.tested = @ \cup {n}]

\* mutant of SelectStep: the loop walks the candidates from the last one
SelectStep_reversed(p) ==
    LET r == run[p]
    IN  /\ r.pc = "select"
        /\ r.i <= Len(r.candidates)
        /\ Len(r.preflight) < target
        /\ \E over \in BOOLEAN, r1 \in MainResponses, r2 \in MainResponses :
             run' = [run EXCEPT ![p] =
                       [add_if_alive(r, r.candidates[Len(r.candidates) + 1 - r.i], over, <<r1, r2>>)
                          EXCEPT !.i = @ + 1]]
        /\ UNCHANGED <<now, file, published, norm, alive, retry, fetch, coll>>

\* one iteration of the loop of main, lines 216-219
SelectStep(p) ==
    LET r == run[p]
    IN  /\ r.pc = "select"
        /\ r.i <= Len(r.candidates)
        /\ Len(r.preflight) < target
        /\ \E over \in BOOLEAN, r1 \in MainResponses, r2 \in MainResponses :
             run' = [run EXCEPT ![p] =
                       [add_if_alive(r, r.candidates[r.i], over, <<r1, r2>>) EXCEPT !.i = @ + 1]]
        /\ UNCHANGED <<now, file, published, norm, alive, retry, fetch, coll>>

\* mutant of SelectEnd: a short batch is recorded as posted before the run
\* gives up
SelectEnd_commits_short(p) ==
    LET r == run[p]
    IN  /\ r.pc = "select"
        /\ r.i > Len(r.candidates) \/ Len(r.preflight) >= target
        /\ run' = [run EXCEPT ![p] =
             IF Len(r.preflight) < target
             THEN Saving([r EXCEPT !.state = commit_urls(r.state, r.preflight, isoformat(r.now_utc))],
                         "few_alive")
             ELSE [r EXCEPT !.pc = "publish",
                            !.start_seq = r.state.line_seq,
                            !.status_text = compose_fixed3_text(r.preflight, r.state.line_seq)]]
        /\ UNCHANGED <<now, file, published, norm, alive, retry, fetch, coll>>

\* main, lines 221-234: the loop is over; fewer than 3 URLs end the run,
\* else the post is composed
SelectEnd(p) ==
    LET r == run[p]
    IN  /\ r.pc = "select"
        /\ r.i > Len(r.candidates) \/ Len(r.preflight) >= target
        /\ run' = [run EXCEPT ![p] =
             IF Len(r.preflight) < target
             THEN Saving(r, "few_alive")
             ELSE [r EXCEPT !.pc = "publish",
                            !.start_seq = r.state.line_seq,
                            !.status_text = compose_fixed3_text(r.preflight, r.state.line_seq)]]
        /\ UNCHANGED <<now, file, published, norm, alive, retry, fetch, coll>>

\* main, lines 236-254: the publish call returned; commit in memory
PublishOk(p) ==
    LET r == run[p]
    IN  /\ r.pc = "publish"
        /\ published' = Append(published,
                               [lines |-> r.status_text, date |-> jst_date(r.now_utc), by |-> p])
        /\ run' = [run EXCEPT ![p] =
             Saving([r EXCEPT !.state = commit(r.state, r.preflight, r.start_seq, r.now_utc)],
                    "posted")]
        /\ UNCHANGED <<now, file, norm, alive, retry, fetch, coll>>

\* mutant of PublishFails: the state is saved before the exception leaves
PublishFails_saves(p) ==
    /\ run[p].pc = "publish"
    /\ run' = [run EXCEPT ![p] = Saving(run[p], "publish_raised")]
    /\ UNCHANGED <<now, file, published, norm, alive, retry, fetch, coll>>

\* main, lines 259-261: the publish call raised; main re-raises
PublishFails(p) ==
    /\ run[p].pc = "publish"
    /\ run' = [run EXCEPT ![p] = Ended(run[p], "publish_raised")]
    /\ UNCHANGED <<now, file, published, norm, alive, retry, fetch, coll>>

\* save_state, called at lines 196, 223 and 255, then return
SaveState(p) ==
    /\ run[p].pc = "save"
    /\ file' = json_dump(run[p].state)
    /\ run' = [run EXCEPT ![p].pc = "done"]
    /\ UNCHANGED <<now, published, norm, alive, retry, fetch, coll>>

\* the scheduler waits before it starts the next run
TickSteps == {23, 24, 25}

Tick ==
    /\ NoRunInProgress
    /\ \E d \in TickSteps :
         /\ now + d <= MaxNow
         /\ now' = now + d
    /\ UNCHANGED <<file, run, published, norm, alive, retry, fetch, coll>>

\* the strategies of fetch_listing_pages, in the order it tries them
Strategies == <<"sitemap", "wp_api", "playwright">>
StrategyNames == {Strategies[k] : k \in 1..Len(Strategies)}
FirstPc == [sitemap |-> "sitemap_index", wp_api |-> "wp_api", playwright |-> "playwright_list"]

\* a strategy that was not called has no output
NotRun == 0 - 1

NoFetch ==
    [pc |-> "off", deadline |-> "none", called |-> <<>>,
     requests |-> [s \in StrategyNames |-> 0], out |-> [s \in StrategyNames |-> NotRun],
     subs |-> 0, posts |-> 0, i |-> 0, p |-> 0, articles |-> 0, all_urls |-> 0,
     ret |-> NotRun]

NoNorm == [pc |-> "off", arg |-> <<>>, ret |-> <<>>, ret2 |-> <<>>]
NoAlive == [pc |-> "off", resp |-> TimeoutResp, ret |-> FALSE]
NoColl == [pc |-> "off", raw |-> <<>>, already_seen |-> {}, want |-> 0, resp |-> <<>>,
           cut |-> 0, ret |-> <<>>, probed |-> <<>>]
NoRetry == [pc |-> "off", resps |-> <<>>, ret |-> FALSE, probes |-> 0]

\* a fresh deployment: no state file, nothing posted
Init ==
    /\ now = 0
    /\ file = MissingFile
    /\ run = [p \in Procs |-> IdleRun]
    /\ published = <<>>
    /\ coll = NoColl
    /\ norm = NoNorm
    /\ alive = NoAlive
    /\ retry = NoRetry
    /\ fetch = NoFetch

\* runs of the bot one after the other (the scheduler starts a run only
\* when no other run is in progress)
RunStep ==
    \/ NoRunInProgress /\ StartRun(1)
    \/ Collect(1)
    \/ CollectRaises(1)
    \/ SelectStep(1)
    \/ SelectEnd(1)
    \/ PublishOk(1)
    \/ PublishFails(1)
    \/ SaveState(1)

Next == RunStep \/ Tick

Spec == Init /\ [][Next]_vars

----------------------------------------------------------------------------
(* Properties of sequential runs *)

\* the state a run starts from: what load_state makes of the file it read
LoadedState(r) == load_state(r.loaded).state

\* the normalized URLs of one post of the timeline
PostUrls(post) == {normalize_url(post.lines[k].url) : k \in 1..Len(post.lines)}

\* the number of posts published on JST date d
PostsOn(d) == Cardinality({k \in 1..Len(published) : published[k].date = d})

\* a run that got past load, purge and rollover
PastRollover(r) == r.pc # "idle" /\ r.exit \notin {"load_raised", "purge_raised"}

\* C1: the batch handed to the publisher holds no URL whose normalized form
\* is in posted_urls or in the purged recent_urls_24h of the state the run
\* loaded, and no normalized URL is in two posts of the timeline
NonRepetition ==
    /\ \A p \in Procs :
         run[p].pc = "publish" =>
           LET st == LoadedState(run[p])
               cutoff == run[p].now_utc - WindowHours
           IN  \A k \in 1..Len(run[p].status_text) :
                 LET n == normalize_url(run[p].status_text[k].url)
                 IN  /\ \A j \in 1..Len(st.posted_urls) : st.posted_urls[j] # n
                     /\ \A j \in 1..Len(st.recent_urls_24h) :
                          st.recent_urls_24h[j].ts.t >= cutoff => st.recent_urls_24h[j].url # n
    /\ \A i \in 1..Len(published), j \in 1..Len(published) :
         i < j => PostUrls(published[i]) \cap PostUrls(published[j]) = {}

\* C1 witness: a batch is handed over by a run that started with posted
\* URLs and whose candidates held a link that normalizes to a seen one
NonRepetitionWitness ==
    \E p \in Procs :
        /\ run[p].pc = "publish"
        /\ published # <<>>
        /\ \E k \in 1..Len(run[p].candidates) :
             normalize_url(run[p].candidates[k]) \in SeqRange(LoadedState(run[p]).posted_urls)

\* C2: posts_today <= 3 after every rollover check; a successful run adds
\* exactly 1; once 3 posts were made on a JST date no later run on that date
\* gets past the quota gate; the first run on another date starts from 0
\* and gets past the gate
DailyQuota ==
    /\ \A d \in 0..jst_date(MaxNow) : PostsOn(d) <= DAILY_LIMIT
    /\ \A p \in Procs :
         LET r == run[p]
             today == jst_date(r.now_utc)
             st == LoadedState(r)
         IN  PastRollover(r) =>
               /\ r.state.posts_today <= DAILY_LIMIT
               /\ (r.pc \in {"collect", "select", "publish"}) => PostsOn(today) < DAILY_LIMIT
               /\ (PostsOn(today) = DAILY_LIMIT /\ r.exit # "posted") => r.exit = "quota"
               /\ (r.pc = "done" /\ r.exit = "posted") =>
                     /\ file.data.posts_today =
                          (IF st.last_post_date = today THEN st.posts_today ELSE 0) + 1
                     /\ file.data.last_post_date = today
               /\ (st.last_post_date # today) =>
                     /\ r.exit # "quota"
                     /\ r.pc \in {"collect", "select", "publish"} => r.state.posts_today = 0

\* C2 witness: three posts were made on one date and a later run on that
\* date ended at the quota gate
DailyQuotaWitness ==
    \E p \in Procs :
        /\ run[p].pc = "done"
        /\ run[p].exit = "quota"
        /\ PostsOn(jst_date(run[p].now_utc)) = DAILY_LIMIT

\* line_seq as a run would load it from file content f
LineSeqOf(f) == load_state(f).state.line_seq

\* C3: line_seq changes only in a run whose publish call succeeded, where it
\* grows by 3; the lines of a post are numbered N, N+1, N+2 in batch order
\* from the pre-commit line_seq N, and the next post starts at N+3
SequenceNumbering ==
    /\ \A p \in Procs :
         LET r == run[p]
         IN  /\ r.pc = "publish" =>
                  /\ Len(r.status_text) = 3
                  /\ \A k \in 1..3 :
                       /\ r.status_text[k].seq = LineSeqOf(r.loaded) + k - 1
                       /\ r.status_text[k].url = r.preflight[k]
             /\ r.pc = "done" =>
                  LineSeqOf(file) = LineSeqOf(r.loaded) + (IF r.exit = "posted" THEN 3 ELSE 0)
    /\ \A i \in 1..Len(published) :
         /\ \A k \in 1..Len(published[i].lines) :
              published[i].lines[k].seq = published[i].lines[1].seq + k - 1
         /\ i > 1 => published[i].lines[1].seq = published[i - 1].lines[1].seq + 3

\* C3 witness: two successful runs, the second one finished
SequenceNumberingWitness ==
    /\ Len(published) >= 2
    /\ run[1].pc = "done"
    /\ run[1].exit = "posted"

\* C4: a run that ends for lack of candidates or of live URLs never called
\* the publisher, and leaves posted_urls and line_seq as loaded, posts_today
\* as loaded or reset by the rollover, and recent_urls_24h as loaded minus
\* entries older than 24h
NoOpRunsDoNotCommit ==
    \A p \in Procs :
        LET r == run[p]
            st == LoadedState(r)
            today == jst_date(r.now_utc)
            cutoff == r.now_utc - WindowHours
        IN  r.exit \in {"few_candidates", "few_alive"} =>
              /\ Len(published) = r.pub0
              /\ r.pc \in {"save", "done"}
              /\ r.pc = "done" =>
                   /\ file.kind = "object"
                   /\ file.keys = Keys
                   /\ file.data.posted_urls = st.posted_urls
                   /\ file.data.line_seq = st.line_seq
                   /\ file.data.posts_today =
                        (IF st.last_post_date = today THEN st.posts_today ELSE 0)
                   /\ \A e \in SeqRange(file.data.recent_urls_24h) :
                        e \in SeqRange(st.recent_urls_24h)
                   /\ \A e \in SeqRange(st.recent_urls_24h) :
                        e.ts.t >= cutoff => e \in SeqRange(file.data.recent_urls_24h)
                   /\ Len(file.data.recent_urls_24h) <= Len(st.recent_urls_24h)

\* C4 witness: a run that found too few live URLs after the watchdog fired
\* has saved, with posts and a purged window behind it
NoOpRunsDoNotCommitWitness ==
    \E p \in Procs :
        /\ run[p].pc = "done"
        /\ run[p].exit = "few_alive"
        /\ run[p].expired
        /\ LoadedState(run[p]).posted_urls # <<>>
        /\ Len(file.data.recent_urls_24h) < Len(LoadedState(run[p]).recent_urls_24h)

\* C5: when the publish call raises, main ends with the exception, does not
\* call save_state, and state.json is what the run read
PublishFailureCommitsNothing ==
    \A p \in Procs :
        run[p].exit = "publish_raised" =>
            /\ run[p].pc = "done"
            /\ file = run[p].loaded
            /\ Len(published) = run[p].pub0

\* C5 witness: the publish call raised in a run that had loaded a state with
\* posts on another date and entries to purge
PublishFailureCommitsNothingWitness ==
    \E p \in Procs :
        /\ run[p].exit = "publish_raised"
        /\ run[p].loaded.kind = "object"
        /\ run[p].state.posts_today # run[p].loaded.data.posts_today
        /\ Len(run[p].state.recent_urls_24h) < Len(run[p].loaded.data.recent_urls_24h)

----------------------------------------------------------------------------
(* normalize_url as a function: one call on an input, then a second call   *)
(* on the result                                                           *)

NormTokens == {" ", "/", "http:", "HTTP:", "https:", "x"}

BoundedSeq(S, n) == UNION {[1..k -> S] : k \in 0..n}

\* "http://x/d/ABC/"
ExampleUrl == <<"http:", "/", "/", "x", "/", "d", "/", "ABC", "/">>
\* " HTTP://x/d/ABC// "
MessyUrl == <<" ", "HTTP:", "/", "/", "x", "/", "d", "/", "ABC", "/", "/", " ">>

NormInputs == {None, ExampleUrl, MessyUrl} \cup BoundedSeq(NormTokens, MaxLen)

InitNorm ==
    /\ now = 0
    /\ file = MissingFile
    /\ run = [p \in Procs |-> IdleRun]
    /\ published = <<>>
    /\ coll = NoColl
    /\ alive = NoAlive
    /\ retry = NoRetry
    /\ fetch = NoFetch
    /\ \E u \in NormInputs : norm = [pc |-> "call", arg |-> u, ret |-> <<>>, ret2 |-> <<>>]

NormalizeCall ==
    /\ norm.pc = "call"
    /\ norm' = [norm EXCEPT !.pc = "ret", !.ret = normalize_url(norm.arg)]
    /\ UNCHANGED <<now, file, run, published, alive, retry, fetch, coll>>

NormalizeAgain ==
    /\ norm.pc = "ret"
    /\ norm' = [norm EXCEPT !.pc = "ret2", !.ret2 = normalize_url(norm.ret)]
    /\ UNCHANGED <<now, file, run, published, alive, retry, fetch, coll>>

NextNorm == NormalizeCall \/ NormalizeAgain

SpecNorm == InitNorm /\ [][NextNorm]_vars

\* C8: normalize_url(normalize_url(s)) = normalize_url(s) for every s
NormalizeIdempotent == norm.pc = "ret2" => norm.ret2 = norm.ret

\* t begins with http:// in any letter case
BeginsWithHttp(t) ==
    /\ Len(t) >= 3
    /\ t[1] = "http:" \/ t[1] = "HTTP:"
    /\ t[2] = "/"
    /\ t[3] = "/"

\* t with a leading http:// replaced by https://
Upgraded(t) == IF BeginsWithHttp(t) THEN <<"https:">> \o SubSeq(t, 2, Len(t)) ELSE t

\* t is s without its leading and trailing whitespace
IsTrimOf(t, s) ==
    \E i \in 1..(Len(s) + 1), j \in 0..Len(s) :
        /\ i <= j + 1
        /\ \A k \in 1..(i - 1) : s[k] = " "
        /\ \A k \in (j + 1)..Len(s) : s[k] = " "
        /\ i <= j => s[i] # " " /\ s[j] # " "
        /\ t = SubSeq(s, i, j)

\* out is t without one trailing slash, or t if it has none
IsSingleSlashStripOf(out, t) ==
    IF t # <<>> /\ t[Len(t)] = "/" THEN out = SubSeq(t, 1, Len(t) - 1) ELSE out = t

\* out is t without all of its trailing slashes
IsAllSlashStripOf(out, t) ==
    \E m \in 0..Len(t) :
        /\ out = SubSeq(t, 1, m)
        /\ \A k \in (m + 1)..Len(t) : t[k] = "/"
        /\ m > 0 => t[m] # "/"

\* C9 as stated: None and "" come back unchanged; otherwise whitespace is
\* trimmed, a leading http:// becomes https:// and a single trailing slash
\* is stripped
CanonicalFormSingleSlash ==
    norm.pc = "ret" =>
        IF norm.arg = None \/ norm.arg = <<>>
        THEN norm.ret = norm.arg
        ELSE \E i \in 1..(Len(norm.arg) + 1), j \in 0..Len(norm.arg) :
                /\ IsTrimOf(SubSeq(norm.arg, i, j), norm.arg)
                /\ IsSingleSlashStripOf(norm.ret, Upgraded(SubSeq(norm.arg, i, j)))

\* C9 amended: None and "" come back unchanged; otherwise the result is the
\* input with surrounding whitespace trimmed, then a leading http:// in any
\* letter case replaced by https://, then every trailing slash stripped
CanonicalForm ==
    norm.pc = "ret" =>
        IF norm.arg = None \/ norm.arg = <<>>
        THEN norm.ret = norm.arg
        ELSE \E i \in 1..(Len(norm.arg) + 1), j \in 0..Len(norm.arg) :
                /\ IsTrimOf(SubSeq(norm.arg, i, j), norm.arg)
                /\ IsAllSlashStripOf(norm.ret, Upgraded(SubSeq(norm.arg, i, j)))

\* C9 witness: " HTTP://x/d/ABC// " came back as "https://x/d/ABC"
CanonicalFormWitness ==
    /\ norm.pc = "ret"
    /\ norm.arg = MessyUrl
    /\ norm.ret = <<"https:", "/", "/", "x", "/", "d", "/", "ABC">>

----------------------------------------------------------------------------
(* is_gofile_alive as a function of the responses the probe gets *)

\* longest GET body of a probe, in characters
MaxBody == ChunkLen + 1

HeadStatuses == {HeadError, 200, 403, 404, 410, 429, 451, 500, 503}
BodyChars == {"T", "t", "h", "a", "B", "x"}

ProbeResponses ==
    {[head |-> h, get_ok |-> FALSE, body |-> <<>>] : h \in HeadStatuses}
        \cup {[head |-> h, get_ok |-> TRUE, body |-> b] :
                 h \in HeadStatuses, b \in BoundedSeq(BodyChars, MaxBody)}

InitAlive ==
    /\ now = 0
    /\ file = MissingFile
    /\ run = [p \in Procs |-> IdleRun]
    /\ published = <<>>
    /\ coll = NoColl
    /\ norm = NoNorm
    /\ \E resp \in ProbeResponses : alive = [pc |-> "call", resp |-> resp, ret |-> FALSE]
    /\ retry = NoRetry
    /\ fetch = NoFetch

ProbeCall ==
    /\ alive.pc = "call"
    /\ alive' = [alive EXCEPT !.pc = "ret", !.ret = is_gofile_alive(alive.resp)]
    /\ UNCHANGED <<now, file, run, published, norm, retry, fetch, coll>>

NextAlive == ProbeCall

SpecAlive == InitAlive /\ [][NextAlive]_vars

\* c and d are the same letter up to case
SameLetter(c, d) ==
    \/ c = d
    \/ {c, d} \in {{"T", "t"}, {"H", "h"}, {"A", "a"}, {"B", "b"}}

\* death phrase k stands at position i of body, inside the part the probe reads
PhraseAt(body, k, i) ==
    /\ i >= 1
    /\ i + Len(_DEATH_MARKERS[k]) - 1 <= Len(body)
    /\ i + Len(_DEATH_MARKERS[k]) - 1 <= ChunkLen
    /\ \A j \in 1..Len(_DEATH_MARKERS[k]) : SameLetter(body[i + j - 1], _DEATH_MARKERS[k][j])

\* C10: is_gofile_alive returns False exactly when HEAD answered 404, 410 or
\* 451, or the GET succeeded and the part of the body the probe reads holds
\* a death phrase in any letter case; every other outcome returns True
LivenessAllowList ==
    alive.pc = "ret" =>
        (alive.ret = FALSE <=>
            \/ alive.resp.head \in {404, 410, 451}
            \/ /\ alive.resp.get_ok
               /\ \E k \in 1..4, i \in 1..Len(alive.resp.body) : PhraseAt(alive.resp.body, k, i))

\* C10 witness: HEAD answered 503 and the body holds a death phrase that
\* begins inside the part the probe reads and ends outside it: alive
LivenessAllowListWitness ==
    /\ alive.pc = "ret"
    /\ alive.resp.head = 503
    /\ alive.resp.get_ok
    /\ Len(alive.resp.body) = ChunkLen + 1
    /\ alive.resp.body[ChunkLen] = "T"
    /\ alive.resp.body[ChunkLen + 1] = "a"
    /\ \A i \in 1..(ChunkLen - 1) : alive.resp.body[i] = "x"
    /\ alive.ret = TRUE

----------------------------------------------------------------------------
(* The start of a run on any content of state.json *)

\* entries of recent_urls_24h as a file can hold them: a timestamp with an
\* offset (old or fresh), one without an offset, one that is no ISO
\* timestamp, and an entry without "ts"
RecentEntries ==
    {[url |-> gofile("https:", "A"), ts |-> [kind |-> k, t |-> t]] :
        k \in {"aware", "naive"}, t \in {0, 24}}
      \cup {[url |-> gofile("https:", "A"), ts |-> [kind |-> k, t |-> 0]] : k \in {"bad", "missing"}}

\* the values a file gives to the keys it holds
FileData ==
    {[posted_urls |-> <<gofile("https:", "A")>>,
      last_post_date |-> 0,
      posts_today |-> n,
      recent_urls_24h |-> rec,
      line_seq |-> DefaultLineSeq + 3] :
        n \in {1, DAILY_LIMIT}, rec \in BoundedSeq(RecentEntries, 2)}

FileContents ==
    {[kind |-> k, keys |-> {}, data |-> _default_state] :
        k \in {"missing", "garbage", "json_list", "json_scalar"}}
      \cup {[kind |-> "object", keys |-> ks, data |-> d] :
              ks \in {{}, Keys, Keys \ {"recent_urls_24h"}, Keys \ {"line_seq", "posts_today"},
                      {"recent_urls_24h"}},
              d \in FileData}

InitLoad ==
    /\ now \in {0, 24, MaxNow}
    /\ file \in FileContents
    /\ run = [p \in Procs |-> IdleRun]
    /\ published = <<>>
    /\ coll = NoColl
    /\ norm = NoNorm
    /\ alive = NoAlive
    /\ retry = NoRetry
    /\ fetch = NoFetch

NextLoad == StartRun(1)

SpecLoad == InitLoad /\ [][NextLoad]_vars

\* C6: whatever state.json holds, load_state, purge_recent_24h and
\* reset_if_new_day complete without raising
StateLoadingNeverFatal ==
    \A p \in Procs : run[p].exit \notin {"load_raised", "purge_raised"}

----------------------------------------------------------------------------
(* Runs within one hour, one after the other, where the process can be     *)
(* killed inside save_state                                                *)

\* the process dies after open(STATE_FILE, "w") has truncated the file and
\* before json.dump has written the record out; the model follows kills
\* until MaxKilledPosts posts are on the timeline
KilledInSave(p) ==
    /\ run[p].pc = "save"
    /\ Len(published) <= MaxKilledPosts
    /\ file' = TruncatedFile
    /\ run' = [run EXCEPT ![p].pc = "done", ![p].exit = "killed"]
    /\ UNCHANGED <<now, published, norm, alive, retry, fetch, coll>>

NextCrash == RunStep \/ KilledInSave(1)

SpecCrash == Init /\ [][NextCrash]_vars

\* C7: a run interrupted inside save_state leaves a file from which the next
\* load_state gets the posted_urls and line_seq of the complete previous
\* record or of the complete new record
AtomicStateWrite ==
    \A p \in Procs :
        run[p].exit = "killed" =>
            /\ load_state(file).state.posted_urls
                 \in {LoadedState(run[p]).posted_urls, run[p].state.posted_urls}
            /\ LineSeqOf(file) \in {LineSeqOf(run[p].loaded), run[p].state.line_seq}

----------------------------------------------------------------------------
(* is_alive_retry on its own: the answers the network gives to three        *)
(* successive probes of one url are drawn from RetryResponses, and the      *)
(* function is called as add_if_alive calls it                              *)

\* more answers than the loop may consume
StreamLen == Retries + 2

RetryResponses ==
    {[head |-> h, get_ok |-> FALSE, body |-> <<>>] : h \in HeadStatuses}
        \cup {[head |-> 200, get_ok |-> TRUE, body |-> b] : b \in {<<"T", "a">>, <<"x">>}}

InitRetry ==
    /\ now = 0
    /\ file = MissingFile
    /\ run = [p \in Procs |-> IdleRun]
    /\ published = <<>>
    /\ coll = NoColl
    /\ norm = NoNorm
    /\ alive = NoAlive
    /\ fetch = NoFetch
    /\ \E resps \in [1..StreamLen -> RetryResponses] :
         retry = [pc |-> "call", resps |-> resps, ret |-> FALSE, probes |-> 0]

RetryCall ==
    /\ retry.pc = "call"
    /\ LET v == is_alive_retry(retry.resps, Retries)
       IN  retry' = [retry EXCEPT !.pc = "ret", !.ret = v.ret, !.probes = v.probes]
    /\ UNCHANGED <<now, file, run, published, norm, alive, fetch, coll>>

NextRetry == RetryCall

SpecRetry == InitRetry /\ [][NextRetry]_vars

\* the first n probes of the call all got a dead verdict
AllDead(n) == \A k \in 1..n : ~is_gofile_alive(retry.resps[k])

\* C11 as stated: is_alive_retry probes at most twice and, when the retry is
\* used up without an alive verdict, returns the default verdict alive (True)
RetryDefaultsAlive ==
    retry.pc = "ret" =>
        /\ retry.probes \in 1..(Retries + 1)
        /\ AllDead(retry.probes) => retry.ret = TRUE

\* C11 amended: is_alive_retry probes at most twice, probes again only after
\* a dead verdict, returns True at the first alive verdict, and returns False
\* when the probe and its one retry both gave a dead verdict
RetryPolicy ==
    retry.pc = "ret" =>
        /\ retry.probes \in 1..(Retries + 1)
        /\ AllDead(retry.probes - 1)
        /\ retry.ret = is_gofile_alive(retry.resps[retry.probes])
        /\ ~retry.ret => retry.probes = Retries + 1

\* the retry is used up: two dead verdicts, and a third answer that would
\* have been alive is never asked for
RetryPolicyWitness ==
    /\ retry.pc = "ret"
    /\ retry.probes = 2
    /\ AllDead(2)
    /\ is_gofile_alive(retry.resps[3])
    /\ ~retry.ret

----------------------------------------------------------------------------
(* goxplorer.py: fetch_listing_pages and its three strategies.  The links  *)
(* of a page matter to the strategies only through how many of them are    *)
(* new, so a list of links is modelled by its length.  The index site is   *)
(* the environment: every fetch may fail, and every page may hold no, one  *)
(* or MaxLinks new links.  A strategy counts the requests it issues for    *)
(* the sitemaps, the API pages, the list pages and the post pages (the     *)
(* requests that resolve an intermediate link of a fetched page are not    *)
(* counted).                                                               *)

\* num_pages, 100 in the program
NumPages == 2
\* the 20 of `collected >= max_pages * 20`
PostsPerPage == 2
\* sub-sitemaps named by the sitemap index
MaxSitemaps == 2
\* post urls named by one sub-sitemap
MaxEntries == 2
\* the 50 of links[:50] in _extract_article_links_from_list
ArticleCap == 2
\* the most new links one page holds
MaxLinks == 3

LinkCounts == {0, 1, MaxLinks}

\* _deadline_passed(deadline_ts)
_deadline_passed(f) == f.deadline = "passed"

\* the call of strategy s by fetch_listing_pages
call_strategy(f, s) ==
    [f EXCEPT !.pc = FirstPc[s],
              !.called = Append(@, [name |-> s, late |-> _deadline_passed(f)]),
              !.subs = 0, !.posts = 0, !.i = 0, !.p = 1, !.articles = 0, !.all_urls = 0]

\* mutant of fetch_listing_pages: the result of a strategy is not looked at
\* before the next one is tried
fetch_listing_pages_no_check(f, s, urls) ==
    LET g == [f EXCEPT !.out[s] = urls]
    IN  IF s = "sitemap" THEN call_strategy(g, "wp_api")
        ELSE IF s = "wp_api" THEN call_strategy(g, "playwright")
        ELSE [g EXCEPT !.pc = "ret", !.ret = urls]

\* fetch_listing_pages at the return of strategy s with urls
fetch_listing_pages(f, s, urls) ==
    LET g == [f EXCEPT !.out[s] = urls]
    IN  IF urls > 0 THEN [g EXCEPT !.pc = "ret", !.ret = urls]
        ELSE IF s = "sitemap" THEN call_strategy(g, "wp_api")
        ELSE IF s = "wp_api" THEN call_strategy(g, "playwright")
        ELSE [g EXCEPT !.pc = "ret", !.ret = urls]

request(f, s, n) == [f EXCEPT !.requests[s] = @ + n]

Min(a, b) == IF a <= b THEN a ELSE b

\* collect_fresh_gofile_urls computes deadline_ts and calls
\* fetch_listing_pages; deadline_sec = 0 gives no deadline, and a deadline
\* may lie in the past by the time the first strategy starts
InitFetch ==
    /\ now = 0
    /\ file = MissingFile
    /\ run = [p \in Procs |-> IdleRun]
    /\ published = <<>>
    /\ coll = NoColl
    /\ norm = NoNorm
    /\ alive = NoAlive
    /\ retry = NoRetry
    /\ \E d \in {"none", "pending", "passed"} :
         fetch = call_strategy([NoFetch EXCEPT !.deadline = d], "sitemap")

\* the monotonic clock reaches deadline_ts
DeadlinePasses ==
    /\ fetch.pc \notin {"off", "ret", "raised"}
    /\ fetch.deadline = "pending"
    /\ fetch' = [fetch EXCEPT !.deadline = "passed"]
    /\ UNCHANGED <<now, file, run, published, norm, alive, retry, coll>>

\* _fetch_sitemap_post_urls, lines 160-166: the index, or else /sitemap.xml
SitemapIndex ==
    /\ fetch.pc = "sitemap_index"
    /\ \E first \in {"none", "nolocs", "locs"}, second \in {"none", "nolocs", "locs"},
          n \in 1..MaxSitemaps :
         LET xml == IF first = "none" THEN second ELSE first
             f == request(fetch, "sitemap", IF first = "none" THEN 2 ELSE 1)
         IN  fetch' = IF xml = "locs"
                      THEN [f EXCEPT !.pc = "sitemap_subs", !.subs = n]
                      ELSE fetch_listing_pages(f, "sitemap", 0)
    /\ UNCHANGED <<now, file, run, published, norm, alive, retry, coll>>

\* _fetch_sitemap_post_urls, lines 170-184: one sub-sitemap, or the end of
\* the loop; _collect_via_sitemap line 189
SitemapSub ==
    /\ fetch.pc = "sitemap_subs"
    /\ IF fetch.subs = 0 \/ _deadline_passed(fetch) \/ fetch.posts >= NumPages * PostsPerPage
       THEN fetch' = IF fetch.posts = 0
                     THEN fetch_listing_pages(fetch, "sitemap", 0)
                     ELSE [fetch EXCEPT !.pc = "sitemap_posts", !.i = 0]
       ELSE \E k \in 0..MaxEntries :
              fetch' = [request(fetch, "sitemap", 1) EXCEPT
                          !.subs = @ - 1,
                          !.posts = Min(@ + k, NumPages * PostsPerPage)]
    /\ UNCHANGED <<now, file, run, published, norm, alive, retry, coll>>

\* _collect_via_sitemap, lines 195-213: one post page, or the end of the
\* loop.  Line 197 calls f(...), a name that is not defined: NameError
SitemapPost ==
    /\ fetch.pc = "sitemap_posts"
    /\ IF fetch.i = fetch.posts
       THEN fetch' = fetch_listing_pages(fetch, "sitemap", fetch.all_urls)
       ELSE IF _deadline_passed(fetch)
       THEN fetch' = [fetch EXCEPT !.pc = "raised"]
       ELSE \E k \in LinkCounts :
              fetch' = [request(fetch, "sitemap", 1) EXCEPT !.i = @ + 1, !.all_urls = @ + k]
    /\ UNCHANGED <<now, file, run, published, norm, alive, retry, coll>>

\* _collect_via_wp_api, lines 221-243: one page of the API, or the end of
\* the loop
WpApiPage ==
    /\ fetch.pc = "wp_api"
    /\ IF fetch.p > NumPages \/ _deadline_passed(fetch)
       THEN fetch' = fetch_listing_pages(fetch, "wp_api", fetch.all_urls)
       ELSE \E arr \in {"failed", "empty", "posts"}, k \in LinkCounts :
              LET f == request(fetch, "wp_api", 1)
              IN  fetch' = IF arr = "posts"
                           THEN [f EXCEPT !.p = @ + 1, !.all_urls = @ + k]
                           ELSE fetch_listing_pages(f, "wp_api", f.all_urls)
    /\ UNCHANGED <<now, file, run, published, norm, alive, retry, coll>>

\* _collect_via_playwright, lines 365-374: one list page, or the end of the
\* loop
PlaywrightList ==
    /\ fetch.pc = "playwright_list"
    /\ IF fetch.p > NumPages \/ _deadline_passed(fetch)
       THEN fetch' = fetch_listing_pages(fetch, "playwright", fetch.all_urls)
       ELSE \E n \in 0..ArticleCap :
              fetch' = [request(fetch, "playwright", 1) EXCEPT
                          !.pc = "playwright_posts", !.articles = n]
    /\ UNCHANGED <<now, file, run, published, norm, alive, retry, coll>>

\* _collect_via_playwright, lines 377-392: one article of the list page, or
\* the end of the inner loop
PlaywrightPost ==
    /\ fetch.pc = "playwright_posts"
    /\ IF fetch.articles = 0 \/ _deadline_passed(fetch)
       THEN fetch' = [fetch EXCEPT !.pc = "playwright_list", !.p = @ + 1, !.articles = 0]
       ELSE \E seen_post \in BOOLEAN, k \in LinkCounts :
              fetch' = IF seen_post
                       THEN [fetch EXCEPT !.articles = @ - 1]
                       ELSE [request(fetch, "playwright", 1) EXCEPT
                               !.articles = @ - 1, !.all_urls = @ + k]
    /\ UNCHANGED <<now, file, run, published, norm, alive, retry, coll>>

NextFetch ==
    \/ DeadlinePasses
    \/ SitemapIndex
    \/ SitemapSub
    \/ SitemapPost
    \/ WpApiPage
    \/ PlaywrightList
    \/ PlaywrightPost

SpecFetch == InitFetch /\ [][NextFetch]_vars

\* the strategies called so far, by name
CalledNames == [k \in 1..Len(fetch.called) |-> fetch.called[k].name]

\* C12: fetch_listing_pages tries the sitemap, then the WP API, then
\* Playwright; a later strategy is called only after every earlier one has
\* returned an empty list, no strategy is called after one has returned
\* links, and the list returned is the output of the last strategy called
StrategyFallback ==
    LET n == Len(fetch.called)
    IN  fetch.pc # "off" =>
          /\ n \in 1..Len(Strategies)
          /\ CalledNames = SubSeq(Strategies, 1, n)
          /\ \A k \in 1..(n - 1) : fetch.out[Strategies[k]] = 0
          /\ \A k \in (n + 1)..Len(Strategies) : fetch.out[Strategies[k]] = NotRun
          /\ IF fetch.pc = "ret"
             THEN /\ fetch.ret = fetch.out[Strategies[n]]
                  /\ fetch.ret > 0 \/ n = Len(Strategies)
             ELSE fetch.ret = NotRun /\ fetch.out[Strategies[n]] = NotRun

\* the sitemap strategy made requests and came back empty, the WP API found
\* links, and Playwright was never started
StrategyFallbackWitness ==
    /\ fetch.pc = "ret"
    /\ CalledNames = <<"sitemap", "wp_api">>
    /\ fetch.requests["sitemap"] > 1
    /\ fetch.out["sitemap"] = 0
    /\ fetch.ret = MaxLinks + 1
    /\ fetch.requests["playwright"] = 0

\* C13: a deadline that passes during collection makes the strategy stop and
\* return the links gathered so far; no exception leaves the collector
CollectorDeadlineKeepsPartial ==
    /\ fetch.pc # "raised"
    /\ \A p \in Procs : run[p].exit # "collect_raised"

\* C14: a strategy that starts after the deadline has passed issues no
\* request and returns an empty list
ExpiredDeadlineNoRequests ==
    \A k \in 1..Len(fetch.called) :
        fetch.called[k].late =>
            /\ fetch.requests[fetch.called[k].name] = 0
            /\ fetch.out[fetch.called[k].name] \in {NotRun, 0}

\* the one ceiling a strategy applies: the sitemap strategy keeps at most
\* max_pages * 20 post urls
RawCeiling == NumPages * PostsPerPage

\* C16: every strategy keeps the number of raw links it gathers and returns
\* within a fixed ceiling, whatever the number of links on the pages
RawResultCap ==
    /\ fetch.all_urls <= RawCeiling
    /\ \A s \in StrategyNames : fetch.out[s] <= RawCeiling

----------------------------------------------------------------------------
(* Properties of the selection, the window and the seen set in main        *)

\* C15: a url whose normalized form is in already_seen is excluded wherever
\* candidates meet the seen set, so the collector hands no such candidate to
\* main; and every url of recent_urls_24h is in normalized form
SeenComparisonsNormalized ==
    /\ \A p \in Procs :
         run[p].pc \in {"select", "publish"} =>
            \A k \in 1..Len(run[p].candidates) :
                normalize_url(run[p].candidates[k]) \notin run[p].already_seen
    /\ \A p \in Procs :
         \A k \in 1..Len(run[p].state.recent_urls_24h) :
             normalize_url(run[p].state.recent_urls_24h[k].url)
                 = run[p].state.recent_urls_24h[k].url

\* the candidates as add_if_alive compares them
NormCandidates(r) == [k \in 1..Len(r.candidates) |-> normalize_url(r.candidates[k])]

\* the first place of x in s
FirstIndex(s, x) == CHOOSE k \in 1..Len(s) : s[k] = x /\ \A j \in 1..(k - 1) : s[j] # x

\* C17: the batch is made of the first candidates, in collector order, that
\* are unseen, not yet chosen and probed alive: every chosen url is an unseen
\* candidate already walked over, the batch is in the order of the
\* candidates, every candidate walked over and not chosen is seen, was probed
\* dead, or came after the watchdog fired, and the walk stops at the third
\* chosen url; the batch published is the batch selected
SelectionOrder ==
    \A p \in Procs :
        LET r == run[p]
            c == NormCandidates(r)
            pre == r.preflight
            dead == r.tested \ SeqRange(pre)
        IN  r.pc \in {"select", "publish"} =>
              /\ r.i \in 1..(Len(c) + 1)
              /\ Len(pre) <= target
              /\ \A a \in 1..Len(pre) :
                   /\ pre[a] \notin r.already_seen
                   /\ \E k \in 1..(r.i - 1) : c[k] = pre[a]
              /\ \A a \in 1..Len(pre), b \in 1..Len(pre) :
                   a < b => FirstIndex(c, pre[a]) < FirstIndex(c, pre[b])
              /\ \A k \in 1..(r.i - 1) :
                   \/ c[k] \in SeqRange(pre)
                   \/ c[k] \in r.already_seen
                   \/ c[k] \in dead
                   \/ r.expired
              /\ Len(pre) = target => FirstIndex(c, pre[target]) = r.i - 1
              /\ r.pc = "publish" =>
                   /\ Len(pre) = target
                   /\ [k \in 1..target |-> r.status_text[k].url] = pre

\* candidates [a, b, c, d] with a probed dead: the batch is [b, c, d]
SelectionOrderWitness ==
    \E p \in Procs :
        LET r == run[p]
            c == NormCandidates(r)
        IN  /\ r.pc = "publish"
            /\ Len(c) = 4
            /\ c[1] \in r.tested \ SeqRange(r.preflight)
            /\ r.preflight = <<c[2], c[3], c[4]>>

\* C18: after purge_recent_24h the window holds exactly the entries of the
\* loaded window whose timestamp is not older than 24 hours, in their
\* order, and the url of every entry dropped from the window is still seen
\* through posted_urls
PurgeWindow ==
    \A p \in Procs :
        LET r == run[p]
            old == LoadedState(r).recent_urls_24h
            cutoff == r.now_utc - WindowHours
            Fresh(e) == e.ts.t >= cutoff
        IN  /\ (PastRollover(r) /\ r.exit # "posted") =>
                 /\ r.state.recent_urls_24h = SelectSeq(old, Fresh)
                 /\ \A k \in 1..Len(old) :
                      ~Fresh(old[k]) => old[k].url \in SeqRange(r.state.posted_urls)
            /\ r.pc \in {"collect", "select", "publish"} =>
                 \A k \in 1..Len(old) : normalize_url(old[k].url) \in r.already_seen

\* a run 25 hours after a post: the three entries of that post leave the
\* window and stay in already_seen
PurgeWindowWitness ==
    \E p \in Procs :
        LET r == run[p]
            old == LoadedState(r).recent_urls_24h
        IN  /\ r.pc = "collect"
            /\ Len(old) = 3
            /\ \A k \in 1..3 : old[k].ts.t = r.now_utc - (WindowHours + 1)
            /\ r.state.recent_urls_24h = <<>>
            /\ \A k \in 1..3 : old[k].url \in r.already_seen

\* a run 23 hours after a post keeps the three entries of that post
PurgeWindowKeeps ==
    \E p \in Procs :
        LET r == run[p]
            old == LoadedState(r).recent_urls_24h
        IN  /\ r.pc = "collect"
            /\ Len(old) = 3
            /\ \A k \in 1..3 : old[k].ts.t = r.now_utc - (WindowHours - 1)
            /\ r.state.recent_urls_24h = old

----------------------------------------------------------------------------
(* Two invocations of the bot started by overlapping schedules: nothing in *)
(* main or save_state locks state.json, so the steps of the two runs       *)
(* interleave.  Each process runs once.  Collecting and selecting touch    *)
(* only the locals of a run, so the order of these steps among the two     *)
(* processes makes no difference: a process takes its steps while the      *)
(* other one stands before a step that reads or writes state.json or the   *)
(* timeline (load, publish, save) or has ended.                            *)

\* the other process stands at a shared step
Turn(p) == \A q \in Procs \ {p} : run[q].pc \in {"idle", "publish", "save", "done"}

RaceStep(p) ==
    \/ Turn(p) /\ run[p].pc = "idle" /\ StartRun(p)
    \/ Turn(p) /\ Collect(p)
    \/ Turn(p) /\ CollectRaises(p)
    \/ Turn(p) /\ SelectStep(p)
    \/ Turn(p) /\ SelectEnd(p)
    \/ Turn(p) /\ PublishOk(p)
    \/ Turn(p) /\ PublishFails(p)
    \/ Turn(p) /\ SaveState(p)

NextRace == \E p \in Procs : RaceStep(p)

SpecRace == Init /\ [][NextRace]_vars

\* the sequence numbers of one post of the timeline
PostSeqs(post) == {post.lines[k].seq : k \in 1..Len(post.lines)}

\* two posts of the timeline repeat a url or a sequence number
Clash(i, j) ==
    \/ PostUrls(published[i]) \cap PostUrls(published[j]) # {}
    \/ PostSeqs(published[i]) \cap PostSeqs(published[j]) # {}

\* C19: with two runs that may overlap, every run still keeps to the state
\* it loaded, and two posts repeat a url or a sequence number exactly when
\* their runs overlapped, that is when the later run loaded state.json
\* before the earlier one saved it, so that both started from the same
\* content
RaceOnStateFile ==
    /\ \A p \in Procs :
         run[p].pc = "publish" =>
            \A k \in 1..Len(run[p].status_text) :
                /\ normalize_url(run[p].status_text[k].url)
                     \notin SeqRange(LoadedState(run[p]).posted_urls)
                /\ run[p].status_text[k].seq = LineSeqOf(run[p].loaded) + k - 1
    /\ \A i \in 1..Len(published), j \in 1..Len(published) :
         i < j =>
            /\ published[i].by # published[j].by
            /\ Clash(i, j) <=> run[published[i].by].loaded = run[published[j].by].loaded

\* both runs loaded the missing file, and the second post repeats the three
\* urls and the three sequence numbers of the first; the file records one
\* post only
RaceOnStateFileWitness ==
    /\ Len(published) = 2
    /\ PostUrls(published[1]) = PostUrls(published[2])
    /\ PostSeqs(published[1]) = PostSeqs(published[2])
    /\ \A p \in Procs : run[p].pc = "done" /\ run[p].exit = "posted"
    /\ load_state(file).state.posts_today = 1
    /\ Len(load_state(file).state.posted_urls) = 3

----------------------------------------------------------------------------
(* The watchdog of the selection loop                                      *)

\* what a step may do to the run of process p once the watchdog has found
\* the limit exceeded, and what the step that finds it may do
WatchdogStep(p) ==
    LET r == run[p]
        q == run'[p]
    IN  /\ (r.pc = "select" /\ r.expired) =>
              /\ q.pc \in {"select", "save"}
              /\ q.pc = "select" =>
                    /\ q.expired
                    /\ q.preflight = r.preflight
                    /\ q.tested = r.tested
              /\ q.pc = "save" => q.exit = "few_alive" /\ q.state = r.state
              /\ published' = published
        /\ (r.pc = "select" /\ ~r.expired /\ q.expired) =>
              /\ Len(r.preflight) < target
              /\ q.preflight = r.preflight
              /\ q.tested = r.tested
        /\ q.expired => q.pc \in {"select", "save", "done"} /\ q.exit \in {"none", "few_alive"}

\* C20: once add_if_alive has found more than HARD_LIMIT_SEC elapsed, no
\* candidate is probed or added to the batch any more, and the run, which
\* then holds fewer than 3 urls, ends without publishing
SelectionWatchdog == [][\A p \in Procs : WatchdogStep(p)]_vars

\* the watchdog fired with two urls accepted and a candidate left to probe
SelectionWatchdogWitness ==
    \E p \in Procs :
        /\ run[p].pc = "select"
        /\ run[p].expired
        /\ Len(run[p].preflight) = 2
        /\ run[p].i <= Len(run[p].candidates)
        /\ normalize_url(run[p].candidates[run[p].i]) \notin run[p].tested \cup run[p].already_seen

----------------------------------------------------------------------------
(* collect_fresh_gofile_urls on its own: the raw listing, the seen set,    *)
(* want, the probe responses and the moment the deadline passes are drawn  *)
(* from bounded sets                                                       *)

\* a listing longer than the part of it that is checked
CollRaws == {SubSeq(Feed, 1, n) : n \in 0..(QuickCheckLimit + 2)}

CollSeen == {{}, {gofile("https:", "A")}, {gofile("https:", "C"), gofile("https:", "D")}}

\* want: 12 in main, 3 by default
CollWants == {1, target, WantCandidates}

InitColl ==
    /\ now = 0
    /\ file = MissingFile
    /\ run = [p \in Procs |-> IdleRun]
    /\ published = <<>>
    /\ norm = NoNorm
    /\ alive = NoAlive
    /\ retry = NoRetry
    /\ fetch = NoFetch
    /\ \E raw \in CollRaws, seen \in CollSeen, want \in CollWants :
       \E resp \in [SeqRange(raw) -> MainResponses], cut \in 0..Len(raw) :
          coll = [pc |-> "call", raw |-> raw, already_seen |-> seen, want |-> want,
                  resp |-> resp, cut |-> cut, ret |-> <<>>, probed |-> <<>>]

CollCall ==
    /\ coll.pc = "call"
    /\ LET v == collect_fresh_gofile_urls(coll.raw, coll.already_seen, coll.want,
                                          coll.resp, coll.cut)
       IN  coll' = [coll EXCEPT !.pc = "ret", !.ret = v.uniq, !.probed = v.probed]
    /\ UNCHANGED <<now, file, run, published, norm, alive, retry, fetch>>

NextColl == CollCall

SpecColl == InitColl /\ [][NextColl]_vars

\* the raw results that are not in already_seen, in raw order
CollUnseen ==
    LET Unseen(u) == u \notin coll.already_seen
    IN  SelectSeq(coll.raw, Unseen)

\* the first QuickCheckLimit of them
CollPool == SubSeq(CollUnseen, 1, Min(Len(CollUnseen), QuickCheckLimit))

CollAlive(u) == is_gofile_alive(coll.resp[u])

\* C21: collect_fresh_gofile_urls returns at most want urls, pairwise
\* distinct, none in already_seen, each probed alive; it probes the first 60
\* unseen raw results in raw order and nothing else, returns the alive ones
\* among those it probed in that order, and stops probing at the want-th
\* alive url or when the deadline has passed
CollectorOutput ==
    coll.pc = "ret" =>
        /\ Len(coll.ret) <= coll.want
        /\ \A a \in 1..Len(coll.ret), b \in 1..Len(coll.ret) :
             a # b => coll.ret[a] # coll.ret[b]
        /\ \A a \in 1..Len(coll.ret) :
             /\ coll.ret[a] \notin coll.already_seen
             /\ CollAlive(coll.ret[a])
        /\ Len(coll.probed) <= Min(coll.cut, Len(CollPool))
        /\ coll.probed = SubSeq(CollPool, 1, Len(coll.probed))
        /\ coll.ret = SelectSeq(coll.probed, CollAlive)
        /\ Len(coll.ret) = coll.want => coll.probed[Len(coll.probed)] = coll.ret[coll.want]
        /\ Len(coll.ret) < coll.want => Len(coll.probed) = Min(coll.cut, Len(CollPool))

\* more unseen raw results than are checked: an alive one behind the limit
\* is left out although want is not reached and the deadline has not passed
CollectorOutputWitness ==
    /\ coll.pc = "ret"
    /\ Len(CollUnseen) > QuickCheckLimit
    /\ coll.cut = Len(coll.raw)
    /\ CollAlive(CollUnseen[QuickCheckLimit + 1])
    /\ Len(coll.probed) = QuickCheckLimit
    /\ Len(coll.ret) \in 1..(coll.want - 1)
    /\ coll.already_seen # {}

----------------------------------------------------------------------------
(* Reads and writes of state.json by the exits of main                     *)

SavingExits == {"few_candidates", "few_alive", "posted"}

\* the state after load_state, purge_recent_24h and reset_if_new_day of run r
Prepared(r) ==
    reset_if_new_day(purge_recent_24h(LoadedState(r), r.now_utc).state, r.now_utc)

\* what one step may do to state.json and to the run of process p
StateFileStep(p) ==
    LET r == run[p]
        q == run'[p]
    IN  /\ q.loaded # r.loaded => r.pc \in {"idle", "done"} /\ q.loaded = file
        /\ q.pc = "save" =>
              /\ q.exit \in SavingExits
              /\ r.pc \in {"collect", "select", "publish", "save"}
        /\ r.pc = "save" => q = r \/ (q.pc = "done" /\ file' = json_dump(r.state))
        /\ (q.pc = "done" /\ r.pc # "done") =>
              /\ q.exit \notin SavingExits => file' = q.loaded
              /\ q.exit \in {"few_candidates", "few_alive"} => file' = json_dump(Prepared(q))
              /\ q.exit = "posted" =>
                    /\ file' = json_dump(q.state)
                    /\ q.state.line_seq = Prepared(q).line_seq + 3
                    /\ q.state.posts_today = Prepared(q).posts_today + 1
                    /\ Len(q.state.posted_urls) = Len(Prepared(q).posted_urls) + 3

\* C22: a run reads state.json once, at its start, and writes it at most
\* once, as its last step; the exits for too few candidates and too few
\* alive urls write the state with purge and rollover applied, the exit
\* after a post writes the committed state, and every other exit (quota
\* reached, time budget exceeded before collection, an exception) leaves
\* the file as the run loaded it
StateFileWrites ==
    [][/\ \A p \in Procs : StateFileStep(p)
       /\ file' # file => \E p \in Procs : run[p].pc = "save" /\ run'[p].pc = "done"]_vars

\* a run that gave up before collection a day after a post: purge and
\* rollover changed its state, and the file still holds what it loaded
StateFileWritesWitness ==
    \E p \in Procs :
        /\ run[p].pc = "done"
        /\ run[p].exit = "budget"
        /\ run[p].state.recent_urls_24h # LoadedState(run[p]).recent_urls_24h
        /\ run[p].state.posts_today # LoadedState(run[p]).posts_today
        /\ file = run[p].loaded

----------------------------------------------------------------------------
(* The batch handed to the publisher, and the history of posted urls       *)

\* three lines with three different normalized urls
ThreeLinks(lines) ==
    /\ Len(lines) = 3
    /\ \A a \in 1..3, b \in 1..3 : a # b => lines[a].url # lines[b].url
    /\ \A a \in 1..3 : normalize_url(lines[a].url) = lines[a].url

\* C23: the text handed to the publisher carries exactly 3 pairwise distinct
\* normalized urls, each one passed to is_alive_retry and accepted by
\* add_if_alive in this run, and every post of the timeline has 3 distinct
\* links
PublishedBatch ==
    /\ \A p \in Procs :
         run[p].pc = "publish" =>
            /\ ThreeLinks(run[p].status_text)
            /\ \A k \in 1..3 :
                 /\ run[p].status_text[k].url \in run[p].tested
                 /\ run[p].status_text[k].url = run[p].preflight[k]
                 /\ \E j \in 1..(run[p].i - 1) :
                      normalize_url(run[p].candidates[j]) = run[p].status_text[k].url
    /\ \A i \in 1..Len(published) :
         /\ ThreeLinks(published[i].lines)
         /\ Cardinality(PostUrls(published[i])) = 3

\* the candidates name one link in two spellings, and the batch holds it
\* once, next to two other links
PublishedBatchWitness ==
    \E p \in Procs :
        /\ run[p].pc = "publish"
        /\ Len(run[p].candidates) = 4
        /\ run[p].candidates[1] # run[p].candidates[2]
        /\ normalize_url(run[p].candidates[1]) = normalize_url(run[p].candidates[2])
        /\ run[p].preflight[1] = normalize_url(run[p].candidates[1])
        /\ Len(published) > 0

\* every url of the window of st is in its history, and the history names
\* no url twice
HistoryOk(st) ==
    /\ \A k \in 1..Len(st.recent_urls_24h) :
         st.recent_urls_24h[k].url \in SeqRange(st.posted_urls)
    /\ \A a \in 1..Len(st.posted_urls), b \in 1..Len(st.posted_urls) :
         a # b => st.posted_urls[a] # st.posted_urls[b]

\* the history that state.json holds
FilePosted == load_state(file).state.posted_urls

\* the urls of the latest post of the timeline, in the order of its lines
LastBatch ==
    LET post == published[Len(published)]
    IN  [k \in 1..Len(post.lines) |-> post.lines[k].url]

\* what one step may do to the history
HistoryStep ==
    /\ \A p \in Procs :
         (run'[p] # run[p] /\ PastRollover(run'[p])) => HistoryOk(run'[p].state)
    /\ file' # file =>
         LET old == FilePosted
             st == load_state(file').state
         IN  /\ HistoryOk(st)
             /\ Len(st.posted_urls) >= Len(old)
             /\ SubSeq(st.posted_urls, 1, Len(old)) = old
    /\ \A p \in Procs :
         (run[p].pc = "save" /\ run'[p].pc = "done") =>
            load_state(file').state.posted_urls
               = IF run[p].exit = "posted" THEN FilePosted \o LastBatch ELSE FilePosted

\* C24: in runs that follow one another from the default state, every url of
\* recent_urls_24h is in posted_urls, posted_urls names no url twice and
\* never loses an element, and a run that posted extends posted_urls by
\* the three urls of its batch and no other run changes it
WindowSubsetOfHistory == [][HistoryStep]_vars

\* two posts 25 hours apart: the file holds six urls in the history and
\* only the second batch in the window
WindowSubsetOfHistoryWitness ==
    /\ Len(published) = 2
    /\ Len(FilePosted) = 6
    /\ Len(load_state(file).state.recent_urls_24h) = 3
    /\ \A k \in 1..3 : load_state(file).state.recent_urls_24h[k].url = FilePosted[3 + k]
    /\ SubSeq(FilePosted, 4, 6) = LastBatch

====
